---- MODULE Spec2Model ----
(***************************************************************************)
(* A model of INILibrary (src/src/inilibrary/INILibrary.py): the Robot     *)
(* Framework keyword library that keeps one configparser.ConfigParser in   *)
(* self.config and the path of the loaded file in self.inifile.            *)
(*                                                                         *)
(* Strings that the parser inspects (section names, keys, values, file     *)
(* contents) are sequences of one-character strings, so that writing a     *)
(* file and reading it back are computed character by character, as        *)
(* configparser does.  Paths are plain strings.                            *)
(***************************************************************************)
EXTENDS Integers, Sequences, FiniteSets, TLC

(***************************************************************************)
(* Characters and string helpers (str.strip, str.rstrip, str.find, ...).   *)
(***************************************************************************)
NL == "\n"
TAB == "\t"
Whitespace == {" ", TAB, NL}

SubStr(s, i, j) == IF i > j THEN <<>> ELSE SubSeq(s, i, j)

\* index of the first character of s at or after position i that is in cs; 0 if none
RECURSIVE FindFrom(_, _, _)
FindFrom(s, cs, i) ==
    IF i > Len(s) THEN 0
    ELSE IF s[i] \in cs THEN i
    ELSE FindFrom(s, cs, i + 1)

Find(s, cs) == FindFrom(s, cs, 1)

Contains(s, c) == \E i \in 1..Len(s) : s[i] = c

\* index of the first non-whitespace character; 0 if none (NONSPACECRE.search)
RECURSIVE FirstNonSpaceFrom(_, _)
FirstNonSpaceFrom(s, i) ==
    IF i > Len(s) THEN 0
    ELSE IF s[i] \notin Whitespace THEN i
    ELSE FirstNonSpaceFrom(s, i + 1)

FirstNonSpace(s) == FirstNonSpaceFrom(s, 1)

\* index of the last non-whitespace character; 0 if none
RECURSIVE LastNonSpaceFrom(_, _)
LastNonSpaceFrom(s, i) ==
    IF i < 1 THEN 0
    ELSE IF s[i] \notin Whitespace THEN i
    ELSE LastNonSpaceFrom(s, i - 1)

LastNonSpace(s) == LastNonSpaceFrom(s, Len(s))

RStrip(s) == SubStr(s, 1, LastNonSpace(s))

Strip(s) ==
    IF FirstNonSpace(s) = 0 THEN <<>>
    ELSE SubStr(s, FirstNonSpace(s), LastNonSpace(s))

\* the lines of a text, without their terminators; a final terminator ends the
\* last line and starts no new one (iteration over a text file)
RECURSIVE SplitLines(_)
SplitLines(s) ==
    IF s = <<>> THEN <<>>
    ELSE LET p == Find(s, {NL})
         IN IF p = 0 THEN <<s>>
            ELSE <<SubStr(s, 1, p - 1)>> \o SplitLines(SubStr(s, p + 1, Len(s)))

\* str.split("\n"): the pieces between the separators, at least one piece
RECURSIVE SplitNL(_)
SplitNL(s) ==
    LET p == Find(s, {NL})
    IN IF p = 0 THEN <<s>>
       ELSE <<SubStr(s, 1, p - 1)>> \o SplitNL(SubStr(s, p + 1, Len(s)))

\* str.replace("\n", "\n\t")
RECURSIVE ReplaceNL(_)
ReplaceNL(s) ==
    IF s = <<>> THEN <<>>
    ELSE IF Head(s) = NL THEN <<NL, TAB>> \o ReplaceNL(Tail(s))
    ELSE <<Head(s)>> \o ReplaceNL(Tail(s))

UpperCase == <<"A", "B", "C", "D", "E", "F", "G", "H", "I", "J", "K", "L", "M",
               "N", "O", "P", "Q", "R", "S", "T", "U", "V", "W", "X", "Y", "Z">>
LowerCase == <<"a", "b", "c", "d", "e", "f", "g", "h", "i", "j", "k", "l", "m",
               "n", "o", "p", "q", "r", "s", "t", "u", "v", "w", "x", "y", "z">>

LowerChar(c) ==
    IF \E i \in 1..Len(UpperCase) : UpperCase[i] = c
    THEN LowerCase[CHOOSE i \in 1..Len(UpperCase) : UpperCase[i] = c]
    ELSE c

\* RawConfigParser.optionxform: str.lower
optionxform(optionstr) == [i \in 1..Len(optionstr) |-> LowerChar(optionstr[i])]

(***************************************************************************)
(* The ConfigParser object.  A parser holds its interpolation object, the  *)
(* dictionary of defaults (the DEFAULT section) and the dictionary of      *)
(* sections; Python dictionaries keep insertion order, so each is a        *)
(* sequence.  An option is [key, val, lst]: lst marks a value that is      *)
(* still the list of its lines (what _read stores before                   *)
(* _join_multiline_values runs), kept as the lines joined by "\n".         *)
(***************************************************************************)
DEFAULTSECT == <<"D", "E", "F", "A", "U", "L", "T">>

MAX_INTERPOLATION_DEPTH == 10

\* configparser.ConfigParser() / ConfigParser(interpolation=Interpolation())
NewParser(interpolation) ==
    [kind |-> "ConfigParser", interpolation |-> interpolation,
     defaults |-> <<>>, sections |-> <<>>]

DictHas(d, k) == \E i \in 1..Len(d) : d[i].key = k

DictIndex(d, k) == CHOOSE i \in 1..Len(d) : d[i].key = k

DictGet(d, k) == d[DictIndex(d, k)]

\* d[k] = value: an existing key keeps its place, a new one is appended
DictSet(d, k, v, l) ==
    IF DictHas(d, k)
    THEN [d EXCEPT ![DictIndex(d, k)] = [key |-> k, val |-> v, lst |-> l]]
    ELSE Append(d, [key |-> k, val |-> v, lst |-> l])

\* del d[k]
DictDel(d, k) ==
    LET i == DictIndex(d, k)
    IN SubStr(d, 1, i - 1) \o SubStr(d, i + 1, Len(d))

\* d.update(e)
RECURSIVE DictUpdate(_, _)
DictUpdate(d, e) ==
    IF e = <<>> THEN d
    ELSE DictUpdate(DictSet(d, e[1].key, e[1].val, e[1].lst), Tail(e))

SectHas(cp, section) == \E i \in 1..Len(cp.sections) : cp.sections[i].name = section

SectIndex(cp, section) == CHOOSE i \in 1..Len(cp.sections) : cp.sections[i].name = section

SectDict(cp, section) == cp.sections[SectIndex(cp, section)].options

\* RawConfigParser.has_section: section in self._sections
cp_has_section(cp, section) == SectHas(cp, section)

\* RawConfigParser.__contains__: key == self.default_section or self.has_section(key)
cp_contains(cp, key) == key = DEFAULTSECT \/ cp_has_section(cp, key)

\* RawConfigParser.has_option (also SectionProxy.__contains__)
cp_has_option(cp, section, option) ==
    IF section = <<>> \/ section = DEFAULTSECT
    THEN DictHas(cp.defaults, optionxform(option))
    ELSE IF ~SectHas(cp, section) THEN FALSE
    ELSE \/ DictHas(SectDict(cp, section), optionxform(option))
         \/ DictHas(cp.defaults, optionxform(option))

\* RawConfigParser.add_section
cp_add_section(cp, section) ==
    IF section = DEFAULTSECT THEN [err |-> "ValueError", cp |-> cp]
    ELSE IF SectHas(cp, section) THEN [err |-> "DuplicateSectionError", cp |-> cp]
    ELSE [err |-> "",
          cp |-> [cp EXCEPT !.sections = Append(@, [name |-> section, options |-> <<>>])]]

\* value.replace('%%', '')
RECURSIVE RemovePercentPairs(_)
RemovePercentPairs(s) ==
    IF Len(s) < 2 THEN s
    ELSE IF s[1] = "%" /\ s[2] = "%" THEN RemovePercentPairs(SubStr(s, 3, Len(s)))
    ELSE <<s[1]>> \o RemovePercentPairs(Tail(s))

\* the end of a match of _KEYCRE = %\(([^)]+)\)s at the start of s; 0 if none
KeyRefEnd(s) ==
    IF Len(s) < 5 \/ s[1] # "%" \/ s[2] # "(" THEN 0
    ELSE LET q == FindFrom(s, {")"}, 3)
         IN IF q < 4 \/ q + 1 > Len(s) THEN 0
            ELSE IF s[q + 1] # "s" THEN 0
            ELSE q + 1

\* _KEYCRE.sub('', value)
RECURSIVE RemoveKeyRefs(_)
RemoveKeyRefs(s) ==
    IF s = <<>> THEN <<>>
    ELSE IF KeyRefEnd(s) > 0 THEN RemoveKeyRefs(SubStr(s, KeyRefEnd(s) + 1, Len(s)))
    ELSE <<s[1]>> \o RemoveKeyRefs(Tail(s))

\* Interpolation.before_set: TRUE when the value is accepted.  The dummy
\* Interpolation accepts everything; BasicInterpolation raises ValueError when
\* a "%" is left after the "%%" and the %(name)s references are taken out.
before_set(interpolation, value) ==
    IF interpolation = "Interpolation" THEN TRUE
    ELSE ~Contains(RemoveKeyRefs(RemovePercentPairs(value)), "%")

\* RawConfigParser.set (through ConfigParser.set; the values are strings)
cp_set(cp, section, option, value) ==
    IF value # <<>> /\ ~before_set(cp.interpolation, value)
    THEN [err |-> "ValueError", cp |-> cp]
    ELSE IF section = <<>> \/ section = DEFAULTSECT
    THEN [err |-> "",
          cp |-> [cp EXCEPT !.defaults = DictSet(@, optionxform(option), value, FALSE)]]
    ELSE IF ~SectHas(cp, section) THEN [err |-> "NoSectionError", cp |-> cp]
    ELSE [err |-> "",
          cp |-> [cp EXCEPT !.sections[SectIndex(cp, section)].options =
                                DictSet(@, optionxform(option), value, FALSE)]]

\* RawConfigParser.remove_option
cp_remove_option(cp, section, option) ==
    IF section = <<>> \/ section = DEFAULTSECT
    THEN IF DictHas(cp.defaults, optionxform(option))
         THEN [err |-> "", cp |-> [cp EXCEPT !.defaults = DictDel(@, optionxform(option))]]
         ELSE [err |-> "", cp |-> cp]
    ELSE IF ~SectHas(cp, section) THEN [err |-> "NoSectionError", cp |-> cp]
    ELSE IF DictHas(SectDict(cp, section), optionxform(option))
    THEN [err |-> "",
          cp |-> [cp EXCEPT !.sections[SectIndex(cp, section)].options =
                                DictDel(@, optionxform(option))]]
    ELSE [err |-> "", cp |-> cp]

\* RawConfigParser.remove_section: only a member of self._sections is deleted
cp_remove_section(cp, section) ==
    IF SectHas(cp, section)
    THEN LET i == SectIndex(cp, section)
         IN [cp EXCEPT !.sections = SubStr(@, 1, i - 1) \o SubStr(@, i + 1, Len(@))]
    ELSE cp

\* RawConfigParser._unify_values: the section's options over the defaults
\* (a ChainMap, looked up by key)
UnifyHas(cp, section, k) ==
    \/ (SectHas(cp, section) /\ DictHas(SectDict(cp, section), k))
    \/ DictHas(cp.defaults, k)

UnifyGet(cp, section, k) ==
    IF SectHas(cp, section) /\ DictHas(SectDict(cp, section), k)
    THEN DictGet(SectDict(cp, section), k)
    ELSE DictGet(cp.defaults, k)

(***************************************************************************)
(* Reading a value: BasicInterpolation.before_get / _interpolate_some.     *)
(* A result is [err, out]: err is "" or the name of the exception raised.  *)
(***************************************************************************)
RECURSIVE InterpolateSome(_, _, _, _)
RECURSIVE InterpolateLoop(_, _, _, _)

\* accum.append(text), then what the rest of the loop gives (t)
Prepend(text, t) == IF t.err # "" THEN t ELSE [err |-> "", out |-> text \o t.out]

\* the value of a reference, v, interpolated itself when it holds a "%"
InterpolateValue(cp, section, v, depth) ==
    IF v.lst
    THEN \* a list of lines: rest.find or ''.join(accum) fails
         [err |-> IF \E i \in 1..Len(SplitNL(v.val)) : SplitNL(v.val)[i] = <<"%">>
                  THEN "AttributeError" ELSE "TypeError",
          out |-> <<>>]
    ELSE IF Contains(v.val, "%") THEN InterpolateSome(cp, section, v.val, depth + 1)
    ELSE [err |-> "", out |-> v.val]

\* after a reference: sub is its interpolated value, after the text behind it
InterpolateAfter(cp, section, pre, sub, after, depth) ==
    IF sub.err # "" THEN sub
    ELSE Prepend(pre \o sub.out, InterpolateLoop(cp, section, after, depth))

\* a reference %(var)s
InterpolateRef(cp, section, pre, var, after, depth) ==
    IF ~UnifyHas(cp, section, var)
    THEN [err |-> "InterpolationMissingOptionError", out |-> <<>>]
    ELSE InterpolateAfter(cp, section, pre,
                          InterpolateValue(cp, section, UnifyGet(cp, section, var), depth),
                          after, depth)

\* rest = pre + r, where r starts with the first "%"
InterpolateAt(cp, section, pre, r, depth) ==
    IF Len(r) >= 2 /\ r[2] = "%"
    THEN Prepend(pre \o <<"%">>, InterpolateLoop(cp, section, SubStr(r, 3, Len(r)), depth))
    ELSE IF Len(r) >= 2 /\ r[2] = "("
    THEN IF KeyRefEnd(r) = 0
         THEN [err |-> "InterpolationSyntaxError", out |-> <<>>]
         ELSE InterpolateRef(cp, section, pre,
                             optionxform(SubStr(r, 3, KeyRefEnd(r) - 2)),
                             SubStr(r, KeyRefEnd(r) + 1, Len(r)), depth)
    ELSE [err |-> "InterpolationSyntaxError", out |-> <<>>]

\* the while loop of _interpolate_some
InterpolateLoop(cp, section, rest, depth) ==
    IF rest = <<>> \/ Find(rest, {"%"}) = 0 THEN [err |-> "", out |-> rest]
    ELSE InterpolateAt(cp, section, SubStr(rest, 1, Find(rest, {"%"}) - 1),
                       SubStr(rest, Find(rest, {"%"}), Len(rest)), depth)

\* _interpolate_some(parser, option, accum, rest, section, map, depth)
InterpolateSome(cp, section, rest, depth) ==
    IF depth > MAX_INTERPOLATION_DEPTH
    THEN [err |-> "InterpolationDepthError", out |-> <<>>]
    ELSE InterpolateLoop(cp, section, rest, depth)

\* ''.join(L) of BasicInterpolation.before_get
Interpolated(r) == [err |-> r.err, val |-> r.out, lst |-> FALSE]

\* Interpolation.before_get of the parser's interpolation object, on the stored
\* option e: the dummy Interpolation returns the value as it is stored,
\* BasicInterpolation substitutes the references
before_get(cp, section, e) ==
    IF cp.interpolation = "Interpolation"
    THEN [err |-> "", val |-> e.val, lst |-> e.lst]
    ELSE IF e.lst THEN [err |-> "AttributeError", val |-> <<>>, lst |-> FALSE]
    ELSE Interpolated(InterpolateSome(cp, section, e.val, 1))

\* RawConfigParser.get(section, option)
cp_get(cp, section, option) ==
    IF ~SectHas(cp, section) /\ section # DEFAULTSECT
    THEN [err |-> "NoSectionError", val |-> <<>>, lst |-> FALSE]
    ELSE IF ~UnifyHas(cp, section, optionxform(option))
    THEN [err |-> "NoOptionError", val |-> <<>>, lst |-> FALSE]
    ELSE before_get(cp, section, UnifyGet(cp, section, optionxform(option)))

\* the dictionary RawConfigParser.items(section) walks: the defaults, updated
\* with the section's own options
ItemsDict(cp, section) ==
    IF SectHas(cp, section) THEN DictUpdate(cp.defaults, SectDict(cp, section))
    ELSE cp.defaults

\* RawConfigParser.items(section): every option of ItemsDict through before_get;
\* the first one that raises ends the call
RECURSIVE ItemsFrom(_, _, _, _)

\* the pair (option, value) before the pairs of the options behind it (t)
ItemsCons(e, t) == IF t.err # "" THEN t ELSE [err |-> "", items |-> <<e>> \o t.items]

\* g is before_get of option i
ItemsStep(cp, section, d, i, g) ==
    IF g.err # "" THEN [err |-> g.err, items |-> <<>>]
    ELSE ItemsCons([key |-> d[i].key, val |-> g.val, lst |-> g.lst],
                   ItemsFrom(cp, section, d, i + 1))

ItemsFrom(cp, section, d, i) ==
    IF i > Len(d) THEN [err |-> "", items |-> <<>>]
    ELSE ItemsStep(cp, section, d, i, before_get(cp, section, d[i]))

cp_items(cp, section) ==
    IF ~SectHas(cp, section) /\ section # DEFAULTSECT
    THEN [err |-> "NoSectionError", items |-> <<>>]
    ELSE ItemsFrom(cp, section, ItemsDict(cp, section), 1)

(***************************************************************************)
(* Writing the parser to a file: RawConfigParser.write / _write_section.   *)
(***************************************************************************)
\* repr() of one line of a list value
PyReprChar(c, quote) ==
    IF c = "\\" THEN <<"\\", "\\">>
    ELSE IF c = NL THEN <<"\\", "n">>
    ELSE IF c = TAB THEN <<"\\", "t">>
    ELSE IF c = quote THEN <<"\\", c>>
    ELSE <<c>>

RECURSIVE PyReprBody(_, _)
PyReprBody(s, quote) ==
    IF s = <<>> THEN <<>> ELSE PyReprChar(Head(s), quote) \o PyReprBody(Tail(s), quote)

PyRepr(s) ==
    LET quote == IF Contains(s, "'") /\ ~Contains(s, "\"") THEN "\"" ELSE "'"
    IN <<quote>> \o PyReprBody(s, quote) \o <<quote>>

RECURSIVE PyReprList(_)
PyReprList(lines) ==
    IF lines = <<>> THEN <<>>
    ELSE IF Len(lines) = 1 THEN PyRepr(lines[1])
    ELSE PyRepr(lines[1]) \o <<",", " ">> \o PyReprList(Tail(lines))

\* str(value): a string as it is, a list of lines as Python prints a list
StrOf(e) == IF e.lst THEN <<"[">> \o PyReprList(SplitNL(e.val)) \o <<"]">> ELSE e.val

RECURSIVE WriteItems(_)
WriteItems(d) ==
    IF d = <<>> THEN <<>>
    ELSE d[1].key \o <<" ", "=", " ">> \o ReplaceNL(StrOf(d[1])) \o <<NL>> \o WriteItems(Tail(d))

\* _write_section(fp, section_name, section_items, " = ")
WriteSection(name, d) == <<"[">> \o name \o <<"]", NL>> \o WriteItems(d) \o <<NL>>

RECURSIVE WriteSections(_)
WriteSections(ss) ==
    IF ss = <<>> THEN <<>>
    ELSE WriteSection(ss[1].name, ss[1].options) \o WriteSections(Tail(ss))

\* RawConfigParser.write(fp): the defaults first, when there are any
cp_write(cp) ==
    (IF cp.defaults # <<>> THEN WriteSection(DEFAULTSECT, cp.defaults) ELSE <<>>)
        \o WriteSections(cp.sections)

(***************************************************************************)
(* Reading a file into a fresh parser: RawConfigParser._read, with the     *)
(* defaults of ConfigParser (strict, "=" and ":" delimiters, "#" and ";"   *)
(* full-line comments, no inline comments, empty lines kept in values, no  *)
(* valueless options).  The reader's state st holds the parser, the        *)
(* dictionary being filled (cur), sectname, optname (<<>> for None),       *)
(* indent_level, elements_added, the pending ParsingError (e) and the      *)
(* exception raised at once (raised).                                      *)
(***************************************************************************)
ReadInit(interpolation) ==
    [cp |-> NewParser(interpolation), cur |-> [kind |-> "none", name |-> <<>>],
     sectname |-> <<>>, optname |-> <<>>, indent |-> 0,
     addedSects |-> {}, addedOpts |-> {}, e |-> FALSE, raised |-> ""]

CurDict(st) ==
    IF st.cur.kind = "defaults" THEN st.cp.defaults ELSE SectDict(st.cp, st.cur.name)

CurPut(st, d) ==
    IF st.cur.kind = "defaults" THEN [st EXCEPT !.cp.defaults = d]
    ELSE [st EXCEPT !.cp.sections[SectIndex(st.cp, st.cur.name)].options = d]

\* cursect[optname].append(text)
CurAppend(st, text) ==
    CurPut(st, DictSet(CurDict(st), st.optname,
                       DictGet(CurDict(st), st.optname).val \o <<NL>> \o text, TRUE))

\* the index of the "]" that closes a SECTCRE match \[(.+)\] of value; 0 if none
RECURSIVE LastBracketFrom(_, _)
LastBracketFrom(value, j) ==
    IF j < 3 THEN 0
    ELSE IF value[j] = "]" THEN j
    ELSE LastBracketFrom(value, j - 1)

SectEnd(value) ==
    IF value = <<>> THEN 0
    ELSE IF value[1] # "[" THEN 0
    ELSE LastBracketFrom(value, Len(value))

\* a section header line [name]
ReadHeader(st, name) ==
    IF SectHas(st.cp, name)
    THEN IF name \in st.addedSects
         THEN [st EXCEPT !.raised = "DuplicateSectionError", !.sectname = name]
         ELSE [st EXCEPT !.cur = [kind |-> "section", name |-> name],
                         !.addedSects = @ \cup {name},
                         !.sectname = name, !.optname = <<>>]
    ELSE IF name = DEFAULTSECT
    THEN [st EXCEPT !.cur = [kind |-> "defaults", name |-> name],
                    !.sectname = name, !.optname = <<>>]
    ELSE [st EXCEPT !.cp.sections = Append(@, [name |-> name, options |-> <<>>]),
                    !.cur = [kind |-> "section", name |-> name],
                    !.addedSects = @ \cup {name},
                    !.sectname = name, !.optname = <<>>]

\* cursect[optname] = [optval], unless the option was read before
StoreOption(st, optval) ==
    IF <<st.sectname, st.optname>> \in st.addedOpts
    THEN [st EXCEPT !.raised = "DuplicateOptionError"]
    ELSE CurPut([st EXCEPT !.addedOpts = @ \cup {<<st.sectname, st.optname>>}],
                DictSet(CurDict(st), st.optname, optval, TRUE))

\* an option line whose delimiter is at index d (0: none):
\* OPTCRE = (.*?)\s*(=|:)\s*(.*)$; an empty name is a ParsingError for later
ReadOption(st, value, d) ==
    IF d = 0 THEN [st EXCEPT !.e = TRUE]
    ELSE StoreOption([st EXCEPT !.e = @ \/ RStrip(SubStr(value, 1, d - 1)) = <<>>,
                                !.optname = optionxform(RStrip(SubStr(value, 1, d - 1)))],
                     Strip(SubStr(value, d + 1, Len(value))))

\* a line that is no continuation: a section header or an option
ReadEntry(st, value) ==
    IF SectEnd(value) > 0 THEN ReadHeader(st, SubStr(value, 2, SectEnd(value) - 1))
    ELSE IF st.cur.kind = "none" THEN [st EXCEPT !.raised = "MissingSectionHeaderError"]
    ELSE ReadOption(st, value, Find(value, {"=", ":"}))

\* a line with text: value is the line stripped
ReadValue(st, value, cur_indent_level) ==
    IF st.cur.kind # "none" /\ st.optname # <<>> /\ cur_indent_level > st.indent
    THEN CurAppend(st, value)
    ELSE ReadEntry([st EXCEPT !.indent = cur_indent_level], value)

\* one turn of the loop over the lines of the file; stripped is line.strip()
ReadStripped(st, line, stripped) ==
    IF stripped = <<>>
    THEN IF st.cur.kind # "none" /\ st.optname # <<>> THEN CurAppend(st, <<>>) ELSE st
    ELSE IF stripped[1] \in {"#", ";"} THEN st
    ELSE ReadValue(st, stripped, FirstNonSpace(line) - 1)

ReadLine(st, line) == ReadStripped(st, line, Strip(line))

RECURSIVE ReadLines(_, _)
ReadLines(st, lines) ==
    IF lines = <<>> \/ st.raised # "" THEN st
    ELSE ReadLines(ReadLine(st, Head(lines)), Tail(lines))

\* _join_multiline_values: '\n'.join(val).rstrip() for every list value
JoinDict(d) == [i \in 1..Len(d) |->
                   IF d[i].lst THEN [d[i] EXCEPT !.val = RStrip(@), !.lst = FALSE] ELSE d[i]]

JoinMultilineValues(cp) ==
    [cp EXCEPT !.defaults = JoinDict(@),
               !.sections = [i \in 1..Len(@) |-> [@[i] EXCEPT !.options = JoinDict(@)]]]

\* what read() leaves: an exception raised inside the loop leaves the values
\* read so far as lists; a ParsingError is raised after the values are joined
ReadResult(st) ==
    IF st.raised # "" THEN [err |-> st.raised, cp |-> st.cp]
    ELSE [err |-> IF st.e THEN "ParsingError" ELSE "", cp |-> JoinMultilineValues(st.cp)]

\* the parser after read(text) on a fresh parser, and the exception raised
\* ("" for none)
cp_read(interpolation, text) ==
    ReadResult(ReadLines(ReadInit(interpolation), SplitLines(text)))

(***************************************************************************)
(* Python values handed back to the caller.                                *)
(***************************************************************************)
None == [type |-> "NoneType"]
PyStr(s) == [type |-> "str", v |-> s]
PyBool(b) == [type |-> "bool", v |-> b]
PyList(l) == [type |-> "list", v |-> l]
PyDict(d) == [type |-> "dict", v |-> d]

\* a stored value as Python sees it: a str, or the list of lines left by a
\* read that raised
PyLines(lines) == PyList([i \in 1..Len(lines) |-> PyStr(lines[i])])

PyValue(e) == IF e.lst THEN PyLines(SplitNL(e.val)) ELSE PyStr(e.val)

(***************************************************************************)
(* The file system: the files under the working directory.                 *)
(***************************************************************************)
Cwd == "/work"

\* os.getcwd()+"/"+file_path
FullPath(file_path) == Cwd \o "/" \o file_path

Paths == {"app.ini", "bad.ini", "new.ini"}

NoFile == [exists |-> FALSE, data |-> <<>>]

File(text) == [exists |-> TRUE, data |-> text]

\* [DEFAULT] / k = d / [s] / a = x / k = %(a)s
AppIni == <<"[", "D", "E", "F", "A", "U", "L", "T", "]", NL,
            "k", " ", "=", " ", "d", NL,
            "[", "s", "]", NL,
            "a", " ", "=", " ", "x", NL,
            "k", " ", "=", " ", "%", "(", "a", ")", "s", NL>>

\* [t] / a = x / oops        (the last line is no option: a ParsingError)
BadIni == <<"[", "t", "]", NL,
            "a", " ", "=", " ", "x", NL,
            "o", "o", "p", "s", NL>>

InitialFiles ==
    [p \in {FullPath(q) : q \in Paths} |->
        IF p = FullPath("app.ini") THEN File(AppIni)
        ELSE IF p = FullPath("bad.ini") THEN File(BadIni)
        ELSE NoFile]

(***************************************************************************)
(* The keywords of INILibrary, as functions of the object's fields and the *)
(* arguments.  Each gives the exception that leaves the keyword (raised,   *)
(* "" when it returns), the value returned and the fields afterwards.      *)
(* The exceptions the library raises itself are named by their kind:       *)
(* NotLoaded ("INI File not loaded"), SectionNotFound, KeyNotFound,        *)
(* EmptySection, FileNotFound; those of configparser keep their class name.*)
(***************************************************************************)
\* the interpolation object line 56-57 builds from the flag
InterpolationFor(interpolation) ==
    IF interpolation THEN "Interpolation" ELSE "BasicInterpolation"

\* lines 56-60 {r is what config.read left}: self.config is assigned before
\* the file is read, self.inifile after it
LoadRead(r, ini, file_path) ==
    IF r.err # ""
    THEN [raised |-> r.err, ret |-> None, config |-> r.cp, inifile |-> ini]
    ELSE [raised |-> "", ret |-> None, config |-> r.cp, inifile |-> file_path]

\* a load that lets go of the parser it holds before it looks for the file
load_INI_file_discarding(cfg, ini, files, file_path, interpolation) ==
    IF ~files[FullPath(file_path)].exists
    THEN [raised |-> "FileNotFound", ret |-> None, config |-> None, inifile |-> ini]
    ELSE LoadRead(cp_read(InterpolationFor(interpolation), files[FullPath(file_path)].data),
                  ini, file_path)

load_INI_file(cfg, ini, files, file_path, interpolation) ==
    IF ~files[FullPath(file_path)].exists
    THEN [raised |-> "FileNotFound", ret |-> None, config |-> cfg, inifile |-> ini]
    ELSE LoadRead(cp_read(InterpolationFor(interpolation), files[FullPath(file_path)].data),
                  ini, file_path)

\* return self.config.get(section, key)
GetReturn(g) ==
    IF g.err # "" THEN [raised |-> g.err, ret |-> None]
    ELSE [raised |-> "", ret |-> PyValue(g)]

get_INI_value(cfg, section, key) ==
    IF cfg = None THEN [raised |-> "NotLoaded", ret |-> None]
    ELSE IF ~cp_contains(cfg, section) THEN [raised |-> "SectionNotFound", ret |-> None]
    ELSE IF ~cp_has_option(cfg, section, key) THEN [raised |-> "KeyNotFound", ret |-> None]
    ELSE GetReturn(cp_get(cfg, section, key))

\* self.config.set(section, key, value) {s is its outcome}
SetReturn(s) == [raised |-> s.err, ret |-> None, config |-> s.cp]

\* c1 is the outcome of the section being added when it was not there
SetAfterAdd(c1, section, key, value) ==
    IF c1.err # "" THEN [raised |-> c1.err, ret |-> None, config |-> c1.cp]
    ELSE SetReturn(cp_set(c1.cp, section, key, value))

set_INI_value(cfg, section, key, value) ==
    IF cfg = None THEN [raised |-> "NotLoaded", ret |-> None, config |-> cfg]
    ELSE IF ~cp_contains(cfg, section)
    THEN SetAfterAdd(cp_add_section(cfg, section), section, key, value)
    ELSE SetAfterAdd([err |-> "", cp |-> cfg], section, key, value)

\* file_path is "None" when the argument is left out
save_INI_file(cfg, ini, files, file_path) ==
    IF cfg = None THEN [raised |-> "NotLoaded", ret |-> None, files |-> files]
    ELSE IF file_path = "None"
    THEN IF ini = "None"
         THEN \* os.getcwd()+"/"+None
              [raised |-> "TypeError", ret |-> None, files |-> files]
         ELSE [raised |-> "", ret |-> None,
               files |-> [files EXCEPT ![FullPath(ini)] = File(cp_write(cfg))]]
    ELSE [raised |-> "", ret |-> None,
          files |-> [files EXCEPT ![FullPath(file_path)] = File(cp_write(cfg))]]

remove_section(cfg, section) ==
    IF cfg = None THEN [raised |-> "NotLoaded", ret |-> None, config |-> cfg]
    ELSE IF ~cp_contains(cfg, section)
    THEN [raised |-> "SectionNotFound", ret |-> None, config |-> cfg]
    ELSE [raised |-> "", ret |-> None, config |-> cp_remove_section(cfg, section)]

\* self.config.remove_option(section, key) {r is its outcome}
RemoveReturn(r) == [raised |-> r.err, ret |-> None, config |-> r.cp]

remove_INI_key(cfg, section, key) ==
    IF cfg = None THEN [raised |-> "NotLoaded", ret |-> None, config |-> cfg]
    ELSE IF ~cp_contains(cfg, section)
    THEN [raised |-> "SectionNotFound", ret |-> None, config |-> cfg]
    ELSE IF ~cp_has_option(cfg, section, key)
    THEN [raised |-> "KeyNotFound", ret |-> None, config |-> cfg]
    ELSE RemoveReturn(cp_remove_option(cfg, section, key))

\* dict(self.config.items(section)) {it is the outcome of items}
DictReturn(it) ==
    IF it.err # "" THEN [raised |-> it.err, ret |-> None]
    ELSE [raised |-> "",
          ret |-> PyDict([i \in 1..Len(it.items) |->
                             [key |-> it.items[i].key, value |-> PyValue(it.items[i])]])]

get_all_keys_and_values(cfg, section) ==
    IF cfg = None THEN [raised |-> "NotLoaded", ret |-> None]
    ELSE IF ~cp_contains(cfg, section) THEN [raised |-> "SectionNotFound", ret |-> None]
    ELSE DictReturn(cp_items(cfg, section))

\* the values of the items whose key equals the argument, in order
RECURSIVE MatchingValues(_, _)
MatchingValues(items, key) ==
    IF items = <<>> THEN <<>>
    ELSE (IF items[1].key = key THEN <<PyValue(items[1])>> ELSE <<>>)
             \o MatchingValues(Tail(items), key)

\* lines 293-303 {it is the outcome of self.config.items(section)}: the
\* exception raised ("" for none) and the list built
ValuesOfItems(it, key) ==
    IF it.err # "" THEN [exc |-> it.err, values |-> <<>>]
    ELSE IF Len(it.items) = 0 THEN [exc |-> "EmptySection", values |-> <<>>]
    ELSE [exc |-> "", values |-> MatchingValues(it.items, key)]

\* the try block of get_values_list: the exception raised in it ("" for none)
\* and the list built
get_values_list_try(cfg, section, key) ==
    IF cfg = None THEN [exc |-> "NotLoaded", values |-> <<>>]
    ELSE IF ~cp_contains(cfg, section) THEN [exc |-> "SectionNotFound", values |-> <<>>]
    ELSE ValuesOfItems(cp_items(cfg, section), key)

\* lines 304-305 {t is the outcome of the try block}: the except clause builds
\* an Exception and does not raise it, so the keyword returns None
ValuesReturn(t) ==
    IF t.exc # "" THEN [raised |-> "", ret |-> None]
    ELSE [raised |-> "", ret |-> PyList(t.values)]

get_values_list(cfg, section, key) == ValuesReturn(get_values_list_try(cfg, section, key))

section_exists(cfg, section) ==
    IF cfg = None THEN [raised |-> "NotLoaded", ret |-> None]
    ELSE [raised |-> "", ret |-> PyBool(cp_has_section(cfg, section))]

\* a Key Exists that answers False when no parser is held
key_exists_unguarded(cfg, section, key) ==
    IF cfg = None THEN [raised |-> "", ret |-> PyBool(FALSE)]
    ELSE IF ~cp_contains(cfg, section) THEN [raised |-> "SectionNotFound", ret |-> None]
    ELSE [raised |-> "", ret |-> PyBool(cp_has_option(cfg, section, key))]

key_exists(cfg, section, key) ==
    IF cfg = None THEN [raised |-> "NotLoaded", ret |-> None]
    ELSE IF ~cp_contains(cfg, section) THEN [raised |-> "SectionNotFound", ret |-> None]
    ELSE [raised |-> "", ret |-> PyBool(cp_has_option(cfg, section, key))]

(***************************************************************************)
(* The state machine: one library object (scope GLOBAL), its keywords      *)
(* called one at a time with arguments drawn from small sets.              *)
(***************************************************************************)
\* the calls that change the object or a file, over one run
MaxChanges == 3

Sections == {<<"s">>, <<"t">>, DEFAULTSECT}
Keys == {<<"a">>, <<"K">>}
Values == {<<"y">>, <<" ", "y">>, <<"%">>}

VARIABLES
    config,         \* self.config: None or the ConfigParser
    inifile,        \* self.inifile: "None" or the path given to the last complete load
    fs,             \* the files under the working directory, by full path
    last,           \* the last keyword call: its name, arguments and outcome
    loadAttempted,  \* whether Load INI File has been called at all
    wholeDocument,  \* whether config is what a complete load left, with the
                    \* changes made to it since
    changes         \* the calls so far that changed config, inifile or a file

vars == <<config, inifile, fs, last, loadAttempted, wholeDocument, changes>>

Init ==
    /\ config = None
    /\ inifile = "None"
    /\ fs = InitialFiles
    /\ last = [op |-> "init", args |-> <<>>, raised |-> "", ret |-> None]
    /\ loadAttempted = FALSE
    /\ wholeDocument = FALSE
    /\ changes = 0

Changed == <<config, inifile, fs>>' # <<config, inifile, fs>>

Count == changes' = IF Changed THEN changes + 1 ELSE changes

Load_INI_File ==
    \E file_path \in Paths, interpolation \in BOOLEAN :
        \E r \in {load_INI_file(config, inifile, fs, file_path, interpolation)} :
           /\ changes < MaxChanges
           /\ config' = r.config
           /\ inifile' = r.inifile
           /\ last' = [op |-> "Load INI File",
                       args |-> [file_path |-> file_path, interpolation |-> interpolation],
                       raised |-> r.raised, ret |-> r.ret]
           /\ loadAttempted' = TRUE
           /\ wholeDocument' = IF r.raised = "" THEN TRUE
                               ELSE IF r.raised = "FileNotFound" THEN wholeDocument
                               ELSE FALSE
           /\ UNCHANGED fs
           /\ Count

Get_INI_Value ==
    \E section \in Sections, key \in Keys :
        \E r \in {get_INI_value(config, section, key)} :
           /\ last' = [op |-> "Get INI Value",
                       args |-> [section |-> section, key |-> key],
                       raised |-> r.raised, ret |-> r.ret]
           /\ UNCHANGED <<config, inifile, fs, loadAttempted, wholeDocument, changes>>

Set_INI_Value ==
    \E section \in Sections, key \in Keys, value \in Values :
        \E r \in {set_INI_value(config, section, key, value)} :
           /\ changes < MaxChanges
           /\ config' = r.config
           /\ last' = [op |-> "Set INI Value",
                       args |-> [section |-> section, key |-> key, value |-> value],
                       raised |-> r.raised, ret |-> r.ret]
           /\ UNCHANGED <<inifile, fs, loadAttempted, wholeDocument>>
           /\ Count

Save_INI_File ==
    \E file_path \in Paths \cup {"None"} :
        \E r \in {save_INI_file(config, inifile, fs, file_path)} :
           /\ changes < MaxChanges
           /\ fs' = r.files
           /\ last' = [op |-> "Save INI File", args |-> [file_path |-> file_path],
                       raised |-> r.raised, ret |-> r.ret]
           /\ UNCHANGED <<config, inifile, loadAttempted, wholeDocument>>
           /\ Count

Remove_Section ==
    \E section \in Sections :
        \E r \in {remove_section(config, section)} :
           /\ changes < MaxChanges
           /\ config' = r.config
           /\ last' = [op |-> "Remove Section", args |-> [section |-> section],
                       raised |-> r.raised, ret |-> r.ret]
           /\ UNCHANGED <<inifile, fs, loadAttempted, wholeDocument>>
           /\ Count

Remove_INI_Key ==
    \E section \in Sections, key \in Keys :
        \E r \in {remove_INI_key(config, section, key)} :
           /\ changes < MaxChanges
           /\ config' = r.config
           /\ last' = [op |-> "Remove INI Key",
                       args |-> [section |-> section, key |-> key],
                       raised |-> r.raised, ret |-> r.ret]
           /\ UNCHANGED <<inifile, fs, loadAttempted, wholeDocument>>
           /\ Count

Get_All_Keys_And_Values ==
    \E section \in Sections :
        \E r \in {get_all_keys_and_values(config, section)} :
           /\ last' = [op |-> "Get All Keys And Values", args |-> [section |-> section],
                       raised |-> r.raised, ret |-> r.ret]
           /\ UNCHANGED <<config, inifile, fs, loadAttempted, wholeDocument, changes>>

Get_Values_List ==
    \E section \in Sections, key \in Keys :
        \E r \in {get_values_list(config, section, key)} :
           /\ last' = [op |-> "Get Values List",
                       args |-> [section |-> section, key |-> key],
                       raised |-> r.raised, ret |-> r.ret]
           /\ UNCHANGED <<config, inifile, fs, loadAttempted, wholeDocument, changes>>

Section_Exists ==
    \E section \in Sections :
        \E r \in {section_exists(config, section)} :
           /\ last' = [op |-> "Section Exists", args |-> [section |-> section],
                       raised |-> r.raised, ret |-> r.ret]
           /\ UNCHANGED <<config, inifile, fs, loadAttempted, wholeDocument, changes>>

Key_Exists ==
    \E section \in Sections, key \in Keys :
        \E r \in {key_exists(config, section, key)} :
           /\ last' = [op |-> "Key Exists",
                       args |-> [section |-> section, key |-> key],
                       raised |-> r.raised, ret |-> r.ret]
           /\ UNCHANGED <<config, inifile, fs, loadAttempted, wholeDocument, changes>>

Next ==
    \/ Load_INI_File
    \/ Get_INI_Value
    \/ Set_INI_Value
    \/ Save_INI_File
    \/ Remove_Section
    \/ Remove_INI_Key
    \/ Get_All_Keys_And_Values
    \/ Get_Values_List
    \/ Section_Exists
    \/ Key_Exists

Spec == Init /\ [][Next]_vars


(***************************************************************************)
(* The statements of the specification, over the calls of the model.  The  *)
(* specification's names for the keywords: Load (Load INI File), Get (Get  *)
(* INI Value), Set (Set INI Value), Save (Save INI File), RemoveSection,   *)
(* RemoveKey (Remove INI Key), GetSectionMap (Get All Keys And Values),    *)
(* GetValuesForKey (Get Values List), SectionExists, KeyExists.            *)
(***************************************************************************)
\* the names of the sections held
SectionNames(cp) == {cp.sections[j].name : j \in 1..Len(cp.sections)}

\* the entries held, as <<section, key, value>>, those of DEFAULT among them
Entries(cp) ==
    {<<DEFAULTSECT, cp.defaults[i].key, cp.defaults[i].val>> : i \in 1..Len(cp.defaults)}
    \cup UNION {{<<cp.sections[j].name, cp.sections[j].options[i].key,
                   cp.sections[j].options[i].val>> : i \in 1..Len(cp.sections[j].options)}
                : j \in 1..Len(cp.sections)}

\* the stored text of a key of a section
Literal(cp, section, key) == UnifyGet(cp, section, optionxform(key)).val

\* the stored text with its %(other_key)s references replaced
Resolved(cp, section, key) ==
    cp_get([cp EXCEPT !.interpolation = "BasicInterpolation"], section, key).val

\* C1: on a loaded document Set rejects no value, and a Get of the same
\* section and key straight after a Set returns exactly the value set
C1_SetThenGet ==
    [][/\ (wholeDocument /\ last'.op = "Set INI Value") => last'.raised = ""
       /\ (/\ wholeDocument
           /\ last.op = "Set INI Value"
           /\ last'.op = "Get INI Value"
           /\ last'.args.section = last.args.section
           /\ last'.args.key = last.args.key)
          => (last'.raised = "" /\ last'.ret = PyStr(last.args.value))]_vars

\* C2: a Get straight after a Load with interpolate true returns the stored
\* text with its references resolved; after a Load with the flag false it
\* returns the stored text literally
C2_InterpolateFlag ==
    [][(/\ last.op = "Load INI File"
        /\ last.raised = ""
        /\ last'.op = "Get INI Value"
        /\ last'.raised \notin {"SectionNotFound", "KeyNotFound"})
       => /\ last'.raised = ""
          /\ last'.ret = PyStr(IF last.args.interpolation
                               THEN Resolved(config, last'.args.section, last'.args.key)
                               ELSE Literal(config, last'.args.section, last'.args.key))]_vars

\* C3: on a loaded document, a Set that returns, on a section for which
\* SectionExists is false, leaves SectionExists true for it
C3_SetCreatesSection ==
    [][(/\ wholeDocument
        /\ last'.op = "Set INI Value"
        /\ last'.raised = ""
        /\ section_exists(config, last'.args.section).ret = PyBool(FALSE))
       => section_exists(config', last'.args.section).ret = PyBool(TRUE)]_vars

\* C4: a RemoveKey that returns without error leaves the section present,
\* the key absent, and every other entry of every section as it was
C4_RemoveKeyFrame ==
    [][(wholeDocument /\ last'.op = "Remove INI Key" /\ last'.raised = "")
       => /\ section_exists(config', last'.args.section).ret = PyBool(TRUE)
          /\ key_exists(config', last'.args.section, last'.args.key).ret = PyBool(FALSE)
          /\ SectionNames(config') = SectionNames(config)
          /\ Entries(config') =
                 {e \in Entries(config) : ~(/\ e[1] = last'.args.section
                                            /\ e[2] = optionxform(last'.args.key))}]_vars

\* C5: GetValuesForKey fails with NotLoaded when no document is loaded, with
\* SectionNotFound when the section is absent, and with EmptySection when the
\* section has no entries
C5_ValuesListErrors ==
    last.op = "Get Values List" =>
        /\ (config = None => last.raised = "NotLoaded")
        /\ (config # None /\ ~cp_contains(config, last.args.section))
               => last.raised = "SectionNotFound"
        /\ (/\ config # None
            /\ cp_contains(config, last.args.section)
            /\ cp_items(config, last.args.section) = [err |-> "", items |-> <<>>])
               => last.raised = "EmptySection"

\* C6: a Load of a path that does not exist fails with FileNotFound and
\* leaves the document, the recorded path and the files as they were
C6_MissingPathLoad ==
    [][(last'.op = "Load INI File" /\ ~fs[FullPath(last'.args.file_path)].exists)
       => /\ last'.raised = "FileNotFound"
          /\ config' = config
          /\ inifile' = inifile
          /\ fs' = fs]_vars

\* C6: a Load of a missing path has failed on a document that was loaded and
\* changed since
C6_Witness ==
    /\ last.op = "Load INI File"
    /\ last.raised = "FileNotFound"
    /\ wholeDocument
    /\ config # None
    /\ inifile # "None"
    /\ changes >= 2

\* C7: a Load that fails for any reason leaves the document and the recorded
\* path as they were, and a document is held only once some Load has succeeded
C7_WhollyAbsentOrLoaded ==
    [][/\ (last'.op = "Load INI File" /\ last'.raised # "")
          => (config' = config /\ inifile' = inifile)
       /\ (config' # None => inifile' # "None")]_vars

\* the keywords other than Load that C8 names
Gated ==
    {"Get INI Value", "Set INI Value", "Save INI File", "Remove Section",
     "Remove INI Key", "Get All Keys And Values", "Section Exists", "Key Exists"}

\* C8: while no Load has been attempted, each of Get, Set, Save,
\* RemoveSection, RemoveKey, GetSectionMap, SectionExists and KeyExists fails
\* with NotLoaded, writes no file and leaves the object unloaded with no
\* recorded path; only Load takes the object from unloaded to loaded
C8_UnloadedGate ==
    [][/\ (~loadAttempted /\ last'.op \in Gated)
          => /\ last'.raised = "NotLoaded"
             /\ config' = None
             /\ inifile' = "None"
             /\ fs' = fs
       /\ (config = None /\ config' # None) => last'.op = "Load INI File"]_vars

\* C8: Key Exists has failed with NotLoaded on an object on which no Load
\* was attempted, and nothing was written
C8_Witness ==
    /\ ~loadAttempted
    /\ last.op = "Key Exists"
    /\ last.raised = "NotLoaded"
    /\ config = None
    /\ inifile = "None"
    /\ fs = InitialFiles

\* the path a Save writes to
SaveTarget(ini, file_path) == IF file_path = "None" THEN ini ELSE file_path

\* the Load of a path that follows a Save, with the flag of the Load before
Reload(cp, ini, files, file_path) ==
    load_INI_file(cp, ini, files, file_path, cp.interpolation = "Interpolation")

\* what C9 asks of the document r a Load yields after the Save of cp; set is
\* the call before the Save
RoundTrip(r, cp, set) ==
    /\ r.raised = ""
    /\ SectionNames(r.config) = SectionNames(cp)
    /\ Entries(r.config) = Entries(cp)
    /\ (set.op = "Set INI Value" /\ set.raised = "")
       => get_INI_value(r.config, set.args.section, set.args.key)
              = [raised |-> "", ret |-> PyStr(set.args.value)]

\* C9: a Save after a Load writes the recorded path when none is given and
\* the given path otherwise, changes neither the document nor the recorded
\* path, and a Load of the written path yields the same sections and
\* key/value pairs; a value Set just before the Save is what Get returns
\* after that Load
C9_RoundTrip ==
    [][(wholeDocument /\ last'.op = "Save INI File" /\ last'.raised = "")
       => /\ config' = config
          /\ inifile' = inifile
          /\ fs'[FullPath(SaveTarget(inifile, last'.args.file_path))].exists
          /\ \A p \in Paths : p # SaveTarget(inifile, last'.args.file_path)
                 => fs'[FullPath(p)] = fs[FullPath(p)]
          /\ RoundTrip(Reload(config', inifile', fs',
                              SaveTarget(inifile, last'.args.file_path)),
                       config, last)]_vars

\* C10: on a loaded document and a section with at least one entry,
\* GetValuesForKey returns the one-element list of what Get returns when
\* KeyExists is true, and the empty list when KeyExists is false
C10_ValuesListMatchesKeyExists ==
    (/\ wholeDocument
     /\ last.op = "Get Values List"
     /\ SectHas(config, last.args.section)
     /\ SectDict(config, last.args.section) # <<>>)
    => last.ret = IF key_exists(config, last.args.section, last.args.key).ret = PyBool(TRUE)
                  THEN PyList(<<get_INI_value(config, last.args.section, last.args.key).ret>>)
                  ELSE PyList(<<>>)

====
